---- MODULE Spec2Model ----
(***************************************************************************)
(* Model of src/src/invoice_service.py: InvoiceService.compute_total and   *)
(* its helpers (_validate, _calculate_shipping, _calculate_tax_rate,       *)
(* _calculate_discount, _apply_coupon).                                    *)
(*                                                                         *)
(* Money is fixed point: an amount is an integer number of 1/Scale         *)
(* currency units, a rate is an integer number of percent.  Every price    *)
(* the model feeds in is a whole number of cents, so every product with a  *)
(* rate is exact; binary floating-point rounding is not modelled.          *)
(* An Optional value is a sequence of length 0 (None) or 1.  A coupon is a *)
(* sequence of one-character strings, so that str.strip() is computed.     *)
(* An error message is the sequence of the string pieces concatenated.     *)
(***************************************************************************)
EXTENDS Integers, Sequences, FiniteSets, TLC

\* ------------------------------------------------------------------ bounds
MaxItems == 2
NumCallers == 2

Callers == 1..NumCallers

\* ------------------------------------------------------------ fixed point
Scale == 100 * 100

\* floor(a * p / 100) without overflowing 32 bits
Pct(a, p) == (a \div 100) * p + ((a % 100) * p) \div 100

Max(a, b) == IF a >= b THEN a ELSE b

\* ---------------------------------------------------------------- Optional
None == <<>>
Some(x) == <<x>>

\* ------------------------------------------------------------ data classes
LineItem(sku, category, unit_price, qty, fragile) ==
    [sku |-> sku, category |-> category, unit_price |-> unit_price,
     qty |-> qty, fragile |-> fragile]

Invoice(invoice_id, customer_id, country, membership, coupon, items) ==
    [invoice_id |-> invoice_id, customer_id |-> customer_id,
     country |-> country, membership |-> membership,
     coupon |-> coupon, items |-> items]

\* ------------------------------------------------------------ coupon codes
WELCOME10 == <<"W", "E", "L", "C", "O", "M", "E", "1", "0">>
VIP20 == <<"V", "I", "P", "2", "0">>
STUDENT5 == <<"S", "T", "U", "D", "E", "N", "T", "5">>

\* InvoiceService.__init__: the coupon rate table, in percent
CouponRateTable ==
    [code \in {WELCOME10, VIP20, STUDENT5} |->
        IF code = WELCOME10 THEN 10 ELSE IF code = VIP20 THEN 20 ELSE 5]

\* ------------------------------------------------------------- str.strip()
Whitespace == {" ", "\t", "\n", "\r", "\f"}

RECURSIVE LStrip(_)
LStrip(s) ==
    IF s = <<>> THEN s
    ELSE IF Head(s) \in Whitespace THEN LStrip(Tail(s)) ELSE s

RECURSIVE RStrip(_)
RStrip(s) ==
    IF s = <<>> THEN s
    ELSE IF s[Len(s)] \in Whitespace THEN RStrip(SubSeq(s, 1, Len(s) - 1)) ELSE s

Strip(s) == RStrip(LStrip(s))

\* ------------------------------------------------------------ "; ".join()
RECURSIVE Join(_, _)
Join(sep, parts) ==
    IF parts = <<>> THEN <<>>
    ELSE IF Len(parts) = 1 THEN parts[1]
    ELSE parts[1] \o <<sep>> \o Join(sep, Tail(parts))

\* --------------------------------------------------------------- _validate
Categories == {"book", "food", "electronics", "other"}

\* mutant: the four item rules chained with elif, the first hit hides the rest
ValidateItem_elif(it, problems) ==
    IF it.sku = "" THEN Append(problems, <<"Item sku is missing">>)
    ELSE IF it.qty <= 0 THEN Append(problems, <<"Invalid qty for ", it.sku>>)
    ELSE IF it.unit_price < 0 THEN Append(problems, <<"Invalid price for ", it.sku>>)
    ELSE IF it.category \notin Categories
    THEN Append(problems, <<"Unknown category for ", it.sku>>)
    ELSE problems

\* the body of the loop over inv.items, for one item
ValidateItem(it, problems) ==
    LET p1 == IF it.sku = "" THEN Append(problems, <<"Item sku is missing">>)
              ELSE problems
        p2 == IF it.qty <= 0 THEN Append(p1, <<"Invalid qty for ", it.sku>>)
              ELSE p1
        p3 == IF it.unit_price < 0 THEN Append(p2, <<"Invalid price for ", it.sku>>)
              ELSE p2
        p4 == IF it.category \notin Categories
              THEN Append(p3, <<"Unknown category for ", it.sku>>)
              ELSE p3
    IN  p4

RECURSIVE ValidateItems(_, _)
ValidateItems(items, problems) ==
    IF items = <<>> THEN problems
    ELSE ValidateItems(Tail(items), ValidateItem(Head(items), problems))

Validate(inv) ==
    IF inv = None THEN << <<"Invoice is missing">> >>
    ELSE LET v == inv[1]
             p1 == IF v.invoice_id = "" THEN << <<"Missing invoice_id">> >> ELSE <<>>
             p2 == IF v.customer_id = "" THEN Append(p1, <<"Missing customer_id">>)
                   ELSE p1
             p3 == IF v.items = <<>> THEN Append(p2, <<"Invoice must contain items">>)
                   ELSE p2
         IN  ValidateItems(v.items, p3)

\* ------------------------------------------------------ _calculate_shipping
\* mutant: the US 15 band written with <= 100
CalculateShipping_le(subtotal, country) ==
    IF country = "TH" THEN (IF subtotal >= 500 * Scale THEN 0 ELSE 60 * Scale)
    ELSE IF country = "JP" THEN (IF subtotal >= 4000 * Scale THEN 0 ELSE 600 * Scale)
    ELSE IF country = "US" THEN
        (IF subtotal <= 100 * Scale THEN 15 * Scale
         ELSE IF subtotal < 300 * Scale THEN 8 * Scale
         ELSE 0)
    ELSE (IF subtotal >= 200 * Scale THEN 0 ELSE 25 * Scale)

CalculateShipping(subtotal, country) ==
    IF country = "TH" THEN (IF subtotal >= 500 * Scale THEN 0 ELSE 60 * Scale)
    ELSE IF country = "JP" THEN (IF subtotal >= 4000 * Scale THEN 0 ELSE 600 * Scale)
    ELSE IF country = "US" THEN
        (IF subtotal < 100 * Scale THEN 15 * Scale
         ELSE IF subtotal < 300 * Scale THEN 8 * Scale
         ELSE 0)
    ELSE (IF subtotal >= 200 * Scale THEN 0 ELSE 25 * Scale)

\* ------------------------------------------------------ _calculate_tax_rate
CalculateTaxRate(country) ==
    IF country = "TH" THEN 7
    ELSE IF country = "JP" THEN 10
    ELSE IF country = "US" THEN 8
    ELSE 5

\* ------------------------------------------------------ _calculate_discount
\* mutant: the flat 20 granted from 3000 on, not above 3000
CalculateDiscount_ge(membership, subtotal) ==
    IF membership = "gold" THEN Pct(subtotal, 3)
    ELSE IF membership = "platinum" THEN Pct(subtotal, 5)
    ELSE IF subtotal >= 3000 * Scale THEN 20 * Scale
    ELSE 0

\* mutant: the flat 20 granted to every other membership, whatever the subtotal
CalculateDiscount_flat_always(membership, subtotal) ==
    IF membership = "gold" THEN Pct(subtotal, 3)
    ELSE IF membership = "platinum" THEN Pct(subtotal, 5)
    ELSE 20 * Scale

CalculateDiscount(membership, subtotal) ==
    IF membership = "gold" THEN Pct(subtotal, 3)
    ELSE IF membership = "platinum" THEN Pct(subtotal, 5)
    ELSE IF subtotal > 3000 * Scale THEN 20 * Scale
    ELSE 0

\* ------------------------------------------------------------ _apply_coupon
\* mutant: the coupon term replaces the discount instead of adding to it
ApplyCoupon_replaces(rates, coupon, subtotal, discount, warnings) ==
    IF coupon = None \/ Strip(coupon[1]) = <<>>
    THEN [discount |-> discount, warnings |-> warnings]
    ELSE LET code == Strip(coupon[1])
         IN  IF code \in DOMAIN rates
             THEN [discount |-> Pct(subtotal, rates[code]),
                   warnings |-> warnings]
             ELSE [discount |-> discount,
                   warnings |-> Append(warnings, "Unknown coupon")]

\* returns the discount and the warnings list after the call
ApplyCoupon(rates, coupon, subtotal, discount, warnings) ==
    IF coupon = None \/ Strip(coupon[1]) = <<>>
    THEN [discount |-> discount, warnings |-> warnings]
    ELSE LET code == Strip(coupon[1])
         IN  IF code \in DOMAIN rates
             THEN [discount |-> discount + Pct(subtotal, rates[code]),
                   warnings |-> warnings]
             ELSE [discount |-> discount,
                   warnings |-> Append(warnings, "Unknown coupon")]


\* ------------------------------------------------------------- total floor
\* mutant: the floor applied with the sign turned
ClampTotal_negated(total) == 0 - Max(0, total)

\* total = max(0.0, total)
ClampTotal(total) == Max(0, total)

\* =================================================================== state
VARIABLES
    coupon_rate,    \* InvoiceService._coupon_rate, shared by every call
    inv,            \* inv[c]: the Optional[Invoice] caller c passes
    pc,             \* pc[c]: the statement of compute_total caller c is at
    frame,          \* frame[c]: the local variables of c's running call
    ret,            \* ret[c]: what c's current call returned or raised
    first,          \* first[c]: what c's first call returned or raised
    round,          \* round[c]: 1 during c's first call, 2 during its second
    fn              \* a direct call of one helper: its arguments and result

vars == <<coupon_rate, inv, pc, frame, ret, first, round, fn>>

EmptyFrame ==
    [problems |-> <<>>, warnings |-> <<>>, subtotal |-> 0, fragile_fee |-> 0,
     i |-> 0, shipping |-> 0, discount |-> 0, tax_rate |-> 0, tax |-> 0,
     total |-> 0]

Pending == [status |-> "pending", total |-> 0, warnings |-> <<>>, message |-> <<>>]

Returned(total, warnings) ==
    [status |-> "returned", total |-> total, warnings |-> warnings, message |-> <<>>]

Raised(message) ==
    [status |-> "raised", total |-> 0, warnings |-> <<>>, message |-> message]

\* ---------------------------------------------------------- compute_total
\* warnings: List[str] = []
Enter(c) ==
    /\ pc[c] = "enter"
    /\ frame' = [frame EXCEPT ![c].warnings = <<>>]
    /\ pc' = [pc EXCEPT ![c] = "validate"]
    /\ UNCHANGED <<coupon_rate, inv, ret, first, round, fn>>

\* problems = self._validate(inv)
ValidateStep(c) ==
    /\ pc[c] = "validate"
    /\ frame' = [frame EXCEPT ![c].problems = Validate(inv[c])]
    /\ pc' = [pc EXCEPT ![c] = "check"]
    /\ UNCHANGED <<coupon_rate, inv, ret, first, round, fn>>

\* if problems: raise ValueError("; ".join(problems))
RaiseInvalid(c) ==
    /\ pc[c] = "check"
    /\ frame[c].problems # <<>>
    /\ ret' = [ret EXCEPT ![c] = Raised(Join("; ", frame[c].problems))]
    /\ frame' = [frame EXCEPT ![c] = EmptyFrame]
    /\ pc' = [pc EXCEPT ![c] = "done"]
    /\ UNCHANGED <<coupon_rate, inv, first, round, fn>>

\* subtotal = 0.0; fragile_fee = 0.0; the for loop starts
BeginSum(c) ==
    /\ pc[c] = "check"
    /\ frame[c].problems = <<>>
    /\ frame' = [frame EXCEPT ![c].subtotal = 0, ![c].fragile_fee = 0, ![c].i = 1]
    /\ pc' = [pc EXCEPT ![c] = "sum"]
    /\ UNCHANGED <<coupon_rate, inv, ret, first, round, fn>>

\* one iteration of: for it in inv.items
SumItem(c) ==
    /\ pc[c] = "sum"
    /\ frame[c].i <= Len(inv[c][1].items)
    /\ LET it == inv[c][1].items[frame[c].i]
           line == it.unit_price * it.qty
       IN  frame' = [frame EXCEPT
                ![c].subtotal = @ + line,
                ![c].fragile_fee = IF it.fragile THEN @ + 5 * Scale * it.qty ELSE @,
                ![c].i = @ + 1]
    /\ UNCHANGED <<coupon_rate, inv, pc, ret, first, round, fn>>

\* the loop is exhausted; shipping = self._calculate_shipping(subtotal, inv.country)
ShippingStep(c) ==
    /\ pc[c] = "sum"
    /\ frame[c].i > Len(inv[c][1].items)
    /\ frame' = [frame EXCEPT
            ![c].shipping = CalculateShipping(frame[c].subtotal, inv[c][1].country)]
    /\ pc' = [pc EXCEPT ![c] = "discount"]
    /\ UNCHANGED <<coupon_rate, inv, ret, first, round, fn>>

\* discount = self._calculate_discount(inv.membership, subtotal)
DiscountStep(c) ==
    /\ pc[c] = "discount"
    /\ frame' = [frame EXCEPT
            ![c].discount = CalculateDiscount(inv[c][1].membership, frame[c].subtotal)]
    /\ pc' = [pc EXCEPT ![c] = "coupon"]
    /\ UNCHANGED <<coupon_rate, inv, ret, first, round, fn>>

\* mutant: the coupon is spent, the call clears it on the invoice
CouponStep_spends_coupon(c) ==
    /\ pc[c] = "coupon"
    /\ LET r == ApplyCoupon(coupon_rate, inv[c][1].coupon, frame[c].subtotal,
                            frame[c].discount, frame[c].warnings)
       IN  frame' = [frame EXCEPT ![c].discount = r.discount,
                                  ![c].warnings = r.warnings]
    /\ inv' = [inv EXCEPT ![c] = Some([inv[c][1] EXCEPT !.coupon = None])]
    /\ pc' = [pc EXCEPT ![c] = "tax"]
    /\ UNCHANGED <<coupon_rate, ret, first, round, fn>>

\* mutant: a code is single use, the call removes it from the shared table
CouponStep_pops_rate(c) ==
    /\ pc[c] = "coupon"
    /\ LET r == ApplyCoupon(coupon_rate, inv[c][1].coupon, frame[c].subtotal,
                            frame[c].discount, frame[c].warnings)
           code == IF inv[c][1].coupon = None THEN <<>> ELSE Strip(inv[c][1].coupon[1])
       IN  /\ frame' = [frame EXCEPT ![c].discount = r.discount,
                                     ![c].warnings = r.warnings]
           /\ coupon_rate' = [k \in (DOMAIN coupon_rate) \ {code} |-> coupon_rate[k]]
    /\ pc' = [pc EXCEPT ![c] = "tax"]
    /\ UNCHANGED <<inv, ret, first, round, fn>>

\* discount = self._apply_coupon(inv.coupon, subtotal, discount, warnings)
CouponStep(c) ==
    /\ pc[c] = "coupon"
    /\ LET r == ApplyCoupon(coupon_rate, inv[c][1].coupon, frame[c].subtotal,
                            frame[c].discount, frame[c].warnings)
       IN  frame' = [frame EXCEPT ![c].discount = r.discount,
                                  ![c].warnings = r.warnings]
    /\ pc' = [pc EXCEPT ![c] = "tax"]
    /\ UNCHANGED <<coupon_rate, inv, ret, first, round, fn>>

\* mutant: the tax is taken on the subtotal, before any discount
TaxStep_before_discount(c) ==
    /\ pc[c] = "tax"
    /\ LET rate == CalculateTaxRate(inv[c][1].country)
       IN  frame' = [frame EXCEPT ![c].tax_rate = rate,
                                  ![c].tax = Pct(frame[c].subtotal, rate)]
    /\ pc' = [pc EXCEPT ![c] = "total"]
    /\ UNCHANGED <<coupon_rate, inv, ret, first, round, fn>>

\* tax_rate = self._calculate_tax_rate(inv.country)
\* tax = (subtotal - discount) * tax_rate
TaxStep(c) ==
    /\ pc[c] = "tax"
    /\ LET rate == CalculateTaxRate(inv[c][1].country)
       IN  frame' = [frame EXCEPT
                ![c].tax_rate = rate,
                ![c].tax = Pct(frame[c].subtotal - frame[c].discount, rate)]
    /\ pc' = [pc EXCEPT ![c] = "total"]
    /\ UNCHANGED <<coupon_rate, inv, ret, first, round, fn>>

\* total = subtotal + shipping + fragile_fee + tax - discount
\* total = max(0.0, total)
TotalStep(c) ==
    /\ pc[c] = "total"
    /\ LET f == frame[c]
       IN  frame' = [frame EXCEPT ![c].total =
                ClampTotal(f.subtotal + f.shipping + f.fragile_fee + f.tax - f.discount)]
    /\ pc' = [pc EXCEPT ![c] = "upgrade"]
    /\ UNCHANGED <<coupon_rate, inv, ret, first, round, fn>>

\* mutant: the upgrade hint is put at the head of the list
UpgradeStep_prepends(c) ==
    /\ pc[c] = "upgrade"
    /\ frame' = [frame EXCEPT ![c].warnings =
            IF /\ frame[c].subtotal > 10000 * Scale
               /\ inv[c][1].membership \notin {"gold", "platinum"}
            THEN <<"Consider membership upgrade">> \o @
            ELSE @]
    /\ pc' = [pc EXCEPT ![c] = "return"]
    /\ UNCHANGED <<coupon_rate, inv, ret, first, round, fn>>

\* if subtotal > 10000 and inv.membership not in ("gold", "platinum"):
\*     warnings.append("Consider membership upgrade")
UpgradeStep(c) ==
    /\ pc[c] = "upgrade"
    /\ frame' = [frame EXCEPT ![c].warnings =
            IF /\ frame[c].subtotal > 10000 * Scale
               /\ inv[c][1].membership \notin {"gold", "platinum"}
            THEN Append(@, "Consider membership upgrade")
            ELSE @]
    /\ pc' = [pc EXCEPT ![c] = "return"]
    /\ UNCHANGED <<coupon_rate, inv, ret, first, round, fn>>

\* return total, warnings
Return(c) ==
    /\ pc[c] = "return"
    /\ ret' = [ret EXCEPT ![c] = Returned(frame[c].total, frame[c].warnings)]
    /\ frame' = [frame EXCEPT ![c] = EmptyFrame]
    /\ pc' = [pc EXCEPT ![c] = "done"]
    /\ UNCHANGED <<coupon_rate, inv, first, round, fn>>

\* the caller calls compute_total once more, on the same service and invoice
CallAgain(c) ==
    /\ pc[c] = "done"
    /\ round[c] = 1
    /\ first' = [first EXCEPT ![c] = ret[c]]
    /\ ret' = [ret EXCEPT ![c] = Pending]
    /\ round' = [round EXCEPT ![c] = 2]
    /\ pc' = [pc EXCEPT ![c] = "enter"]
    /\ UNCHANGED <<coupon_rate, inv, frame, fn>>


\* ------------------------------------------------ a helper called directly
CallShipping ==
    /\ fn.op = "none"
    /\ fn' = [fn EXCEPT !.op = "_calculate_shipping",
                        !.result = CalculateShipping(fn.subtotal, fn.country)]
    /\ UNCHANGED <<coupon_rate, inv, pc, frame, ret, first, round>>

CallTaxRate ==
    /\ fn.op = "none"
    /\ fn' = [fn EXCEPT !.op = "_calculate_tax_rate",
                        !.result = CalculateTaxRate(fn.country)]
    /\ UNCHANGED <<coupon_rate, inv, pc, frame, ret, first, round>>

CallDiscount ==
    /\ fn.op = "none"
    /\ fn' = [fn EXCEPT !.op = "_calculate_discount",
                        !.result = CalculateDiscount(fn.membership, fn.subtotal)]
    /\ UNCHANGED <<coupon_rate, inv, pc, frame, ret, first, round>>

CallCoupon ==
    /\ fn.op = "none"
    /\ LET r == ApplyCoupon(coupon_rate, fn.coupon, fn.subtotal, fn.discount,
                            fn.warnings)
       IN  fn' = [fn EXCEPT !.op = "_apply_coupon",
                            !.result = r.discount,
                            !.result_warnings = r.warnings]
    /\ UNCHANGED <<coupon_rate, inv, pc, frame, ret, first, round>>

\* ================================================================== inputs
SeqsUpTo(S, n) == UNION {[1..k -> S] : k \in 0..n}

BADCODE == <<"B", "A", "D", "C", "O", "D", "E">>

\* line items that pass validation; the subtotals they add up to sit on and
\* around the thresholds 100, 3000 and 10000
PricingItems ==
    { LineItem("B1", "book", 100 * Scale, 6, FALSE),
      LineItem("E1", "electronics", 50 * Scale, 2, FALSE),
      LineItem("F1", "food", 0, 1, TRUE),
      LineItem("O1", "other", 10 * Scale, 1, FALSE),
      LineItem("E2", "electronics", 1500 * Scale, 2, TRUE),
      LineItem("E3", "electronics", 5000 * Scale, 2, FALSE) }

PricingCountries == {"TH", "JP", "US", "DE"}

PricingMemberships == {"gold", "platinum", "regular"}

PricingCoupons ==
    { None, Some(<<" ", "\t">>), Some(WELCOME10), Some(<<" ">> \o VIP20 \o <<"\n">>),
      Some(STUDENT5), Some(BADCODE) }

PricingInvoices ==
    { Some(Invoice("INV-1", "CUST-1", co, m, cp, its)) :
        co \in PricingCountries, m \in PricingMemberships, cp \in PricingCoupons,
        its \in SeqsUpTo(PricingItems, MaxItems) \ {<<>>} }

\* line items that break every combination of the four item rules
ValidationItems ==
    { LineItem(sku, cat, price, qty, FALSE) :
        sku \in {"", "A", "B"}, cat \in {"book", "toy"},
        price \in {0 - Scale, 10 * Scale}, qty \in {0, 1} }

ValidationInvoices ==
    { Some(Invoice(id, cust, "US", "regular", None, its)) :
        id \in {"", "INV-1"}, cust \in {"", "CUST-1"},
        its \in SeqsUpTo(ValidationItems, MaxItems) }

\* the invoices of concurrent callers: one that raises, one with both
\* warnings, one with a coupon of the table, one plain
ConcurrentInvoices ==
    { None,
      Some(Invoice("INV-1", "CUST-1", "JP", "regular", Some(BADCODE),
                   <<LineItem("E3", "electronics", 5000 * Scale, 2, FALSE),
                     LineItem("O1", "other", 10 * Scale, 1, TRUE)>>)),
      Some(Invoice("INV-2", "CUST-2", "US", "gold", Some(WELCOME10),
                   <<LineItem("E1", "electronics", 50 * Scale, 2, FALSE)>>)),
      Some(Invoice("INV-3", "CUST-3", "TH", "regular", None,
                   <<LineItem("B1", "book", 100 * Scale, 6, FALSE)>>)) }

\* arguments of the helpers called directly; subtotals are in cents and sit
\* one cent below, on and one cent above every threshold of the rules
FnSubtotals ==
    { cents * 100 : cents \in
        { 0 - 100, 0, 9999, 10000, 10001, 19999, 20000, 29999, 30000, 49999,
          50000, 50001, 299999, 300000, 300001, 399999, 400000, 1000000,
          1000001 } }

FnCountries == {"TH", "JP", "US", "th", "", "DE"}

FnMemberships == {"gold", "platinum", "regular", "Gold", ""}

FnCoupons ==
    PricingCoupons \cup
    { Some(<<>>), Some(<<"v", "i", "p", "2", "0">>),
      Some(<<"V", "I", "P", " ", "2", "0">>) }

FnDiscounts == {0, 3 * Scale, 20 * Scale}

FnWarnings == {<<>>, <<"Unknown coupon">>}

FnIdle ==
    [op |-> "idle", subtotal |-> 0, country |-> "", membership |-> "",
     coupon |-> None, discount |-> 0, warnings |-> <<>>, result |-> 0,
     result_warnings |-> <<>>]

\* =========================================================== specifications
\* the service after construction, nobody calling yet
InitService ==
    /\ coupon_rate = CouponRateTable
    /\ frame = [c \in Callers |-> EmptyFrame]
    /\ ret = [c \in Callers |-> Pending]
    /\ first = [c \in Callers |-> Pending]
    /\ round = [c \in Callers |-> 1]

\* one caller, any invoice
Init ==
    /\ InitService
    /\ \E x \in PricingInvoices \cup ValidationInvoices \cup {None} :
            inv = [c \in Callers |-> IF c = 1 THEN x ELSE None]
    /\ pc = [c \in Callers |-> IF c = 1 THEN "enter" ELSE "idle"]
    /\ fn = FnIdle

\* every caller calls, each with its own invoice
InitConc ==
    /\ InitService
    /\ inv \in [Callers -> ConcurrentInvoices]
    /\ pc = [c \in Callers |-> "enter"]
    /\ fn = FnIdle

\* nobody calls compute_total; one helper is called with any arguments
InitFn ==
    /\ InitService
    /\ inv = [c \in Callers |-> None]
    /\ pc = [c \in Callers |-> "idle"]
    /\ \E st \in FnSubtotals, co \in FnCountries, m \in FnMemberships,
          cp \in FnCoupons, d \in FnDiscounts, w \in FnWarnings :
            fn = [op |-> "none", subtotal |-> st, country |-> co, membership |-> m,
                  coupon |-> cp, discount |-> d, warnings |-> w, result |-> 0,
                  result_warnings |-> <<>>]

Step(c) ==
    \/ Enter(c)
    \/ ValidateStep(c)
    \/ RaiseInvalid(c)
    \/ BeginSum(c)
    \/ SumItem(c)
    \/ ShippingStep(c)
    \/ DiscountStep(c)
    \/ CouponStep(c)
    \/ TaxStep(c)
    \/ TotalStep(c)
    \/ UpgradeStep(c)
    \/ Return(c)
    \/ CallAgain(c)

Next == \E c \in Callers : Step(c)

NextFn == CallShipping \/ CallTaxRate \/ CallDiscount \/ CallCoupon

Spec == Init /\ [][Next]_vars

SpecConc == InitConc /\ [][Next]_vars

SpecFn == InitFn /\ [][NextFn]_vars

TypeOK ==
    /\ pc \in [Callers -> {"idle", "enter", "validate", "check", "sum", "discount",
                           "coupon", "tax", "total", "upgrade", "return", "done"}]
    /\ round \in [Callers -> {1, 2}]
    /\ \A c \in Callers : ret[c].status \in {"pending", "returned", "raised"}


\* ================================================================== claims
\* What the specification says, written as tables and closed forms; none of
\* these is used by the actions above.

Min(a, b) == IF a <= b THEN a ELSE b

SetMin(S) == CHOOSE x \in S : \A y \in S : x <= y

SetMax(S) == CHOOSE x \in S : \A y \in S : x >= y

\* a string without its leading and trailing whitespace
Trimmed(s) ==
    LET solid == {k \in 1..Len(s) : s[k] \notin Whitespace}
    IN  IF solid = {} THEN <<>> ELSE SubSeq(s, SetMin(solid), SetMax(solid))

\* the problems of one item, in rule order
ItemProblems(it) ==
    (IF it.sku = "" THEN << <<"Item sku is missing">> >> ELSE <<>>)
    \o (IF it.qty <= 0 THEN << <<"Invalid qty for ", it.sku>> >> ELSE <<>>)
    \o (IF it.unit_price < 0 THEN << <<"Invalid price for ", it.sku>> >> ELSE <<>>)
    \o (IF it.category \notin {"book", "food", "electronics", "other"}
        THEN << <<"Unknown category for ", it.sku>> >> ELSE <<>>)

\* the problems of the first n items, in sequence order
RECURSIVE ItemsProblems(_, _)
ItemsProblems(items, n) ==
    IF n = 0 THEN <<>> ELSE ItemsProblems(items, n - 1) \o ItemProblems(items[n])

ExpectedProblems(x) ==
    IF x = None THEN << <<"Invoice is missing">> >>
    ELSE (IF x[1].invoice_id = "" THEN << <<"Missing invoice_id">> >> ELSE <<>>)
         \o (IF x[1].customer_id = "" THEN << <<"Missing customer_id">> >> ELSE <<>>)
         \o (IF Len(x[1].items) = 0 THEN << <<"Invoice must contain items">> >> ELSE <<>>)
         \o ItemsProblems(x[1].items, Len(x[1].items))

\* message m has the pieces a, b next to each other
Mentions(m, a, b) == \E k \in 1..(Len(m) - 1) : m[k] = a /\ m[k + 1] = b

\* the sum of unit_price x qty over the first n items
RECURSIVE SubtotalUpTo(_, _)
SubtotalUpTo(items, n) ==
    IF n = 0 THEN 0
    ELSE SubtotalUpTo(items, n - 1) + items[n].unit_price * items[n].qty

\* the sum of 5 x qty over the fragile ones of the first n items
RECURSIVE FragileFeeUpTo(_, _)
FragileFeeUpTo(items, n) ==
    IF n = 0 THEN 0
    ELSE FragileFeeUpTo(items, n - 1)
         + (IF items[n].fragile THEN 5 * Scale * items[n].qty ELSE 0)

SubtotalOf(v) == SubtotalUpTo(v.items, Len(v.items))

FragileFeeOf(v) == FragileFeeUpTo(v.items, Len(v.items))

ShippingTable(subtotal, country) ==
    CASE country = "TH" -> IF subtotal >= 500 * Scale THEN 0 ELSE 60 * Scale
      [] country = "JP" -> IF subtotal >= 4000 * Scale THEN 0 ELSE 600 * Scale
      [] country = "US" /\ subtotal < 100 * Scale -> 15 * Scale
      [] country = "US" /\ 100 * Scale <= subtotal /\ subtotal < 300 * Scale -> 8 * Scale
      [] country = "US" /\ subtotal >= 300 * Scale -> 0
      [] OTHER -> IF subtotal >= 200 * Scale THEN 0 ELSE 25 * Scale

TaxRateTable(country) ==
    CASE country = "TH" -> 7
      [] country = "JP" -> 10
      [] country = "US" -> 8
      [] OTHER -> 5

MembershipDiscount(membership, subtotal) ==
    CASE membership = "gold" -> Pct(subtotal, 3)
      [] membership = "platinum" -> Pct(subtotal, 5)
      [] OTHER -> IF subtotal > 3000 * Scale THEN 20 * Scale ELSE 0

\* the rate, in percent, of a coupon whose trimmed code is in the rate table
KnownCoupon(coupon) ==
    coupon # None /\ Trimmed(coupon[1]) \in {WELCOME10, VIP20, STUDENT5}

CouponPercent(coupon) ==
    CASE Trimmed(coupon[1]) = WELCOME10 -> 10
      [] Trimmed(coupon[1]) = VIP20 -> 20
      [] Trimmed(coupon[1]) = STUDENT5 -> 5

CouponTerm(coupon, subtotal) ==
    IF KnownCoupon(coupon) THEN Pct(subtotal, CouponPercent(coupon)) ELSE 0

UnknownCoupon(coupon) ==
    coupon # None /\ Trimmed(coupon[1]) # <<>> /\ ~KnownCoupon(coupon)

ExpectedTotal(v) ==
    LET subtotal == SubtotalOf(v)
        discount == MembershipDiscount(v.membership, subtotal)
                    + CouponTerm(v.coupon, subtotal)
        tax == Pct(subtotal - discount, TaxRateTable(v.country))
    IN  Max(0, subtotal + ShippingTable(subtotal, v.country) + FragileFeeOf(v)
               + tax - discount)

ExpectedWarnings(v) ==
    (IF UnknownCoupon(v.coupon) THEN <<"Unknown coupon">> ELSE <<>>)
    \o (IF SubtotalOf(v) > 10000 * Scale /\ v.membership # "gold"
           /\ v.membership # "platinum"
        THEN <<"Consider membership upgrade">> ELSE <<>>)

\* what one call of compute_total on x yields when it runs alone
Alone(x) ==
    IF ExpectedProblems(x) # <<>>
    THEN [status |-> "raised", total |-> 0, warnings |-> <<>>,
          message |-> Join("; ", ExpectedProblems(x))]
    ELSE [status |-> "returned", total |-> ExpectedTotal(x[1]),
          warnings |-> ExpectedWarnings(x[1]), message |-> <<>>]

Finished(c) == pc[c] = "done"

\* C1: compute_total raises exactly when the invoice has at least one problem,
\* and then returns nothing; the message is every problem, in rule order and
\* item order, joined by "; "; every item with qty <= 0 is mentioned by
\* "Invalid qty for {sku}" whatever else is wrong; an absent invoice yields the
\* single problem "Invoice is missing".
C1_ValidationFailure ==
    \A c \in Callers : Finished(c) =>
        LET p == ExpectedProblems(inv[c])
        IN  /\ (ret[c].status = "raised") <=> (p # <<>>)
            /\ (ret[c].status = "returned") <=> (p = <<>>)
            /\ p # <<>> => ret[c].message = Join("; ", p)
            /\ inv[c] = None => ret[c].message = <<"Invoice is missing">>
            /\ inv[c] # None =>
                \A k \in 1..Len(inv[c][1].items) :
                    inv[c][1].items[k].qty <= 0 =>
                        Mentions(ret[c].message, "Invalid qty for ",
                                 inv[c][1].items[k].sku)

\* a call that raised for an invoice with both header problems and a second
\* item that breaks all four item rules
C1_Witness ==
    /\ Finished(1)
    /\ ret[1].status = "raised"
    /\ inv[1] # None
    /\ inv[1][1].invoice_id = ""
    /\ Len(inv[1][1].items) = 2
    /\ Len(ItemProblems(inv[1][1].items[2])) = 4
    /\ Len(ItemProblems(inv[1][1].items[1])) = 2

\* C2: for every invoice that passes validation the returned total is >= 0.
C2_TotalNonNegative ==
    \A c \in Callers :
        Finished(c) /\ ExpectedProblems(inv[c]) = <<>> =>
            ret[c].status = "returned" /\ ret[c].total >= 0

\* a returned total for the largest discount, platinum with VIP20
C2_Witness ==
    /\ Finished(1)
    /\ ret[1].status = "returned"
    /\ inv[1][1].membership = "platinum"
    /\ inv[1][1].coupon # None
    /\ Trimmed(inv[1][1].coupon[1]) = VIP20
    /\ SubtotalOf(inv[1][1]) > 0

\* C3: for every valid invoice the returned total is
\* max(0, subtotal + shipping + fragile_fee + tax - discount), with discount
\* the membership discount plus the coupon term and
\* tax = (subtotal - discount) x tax_rate taken after the coupon.
C3_TotalFormula ==
    \A c \in Callers :
        Finished(c) /\ ret[c].status = "returned" =>
            ret[c].total = ExpectedTotal(inv[c][1])

\* US, gold, WELCOME10, one item 50 x 2: total 101.96
C3_Witness ==
    /\ Finished(1)
    /\ ret[1].status = "returned"
    /\ inv[1][1].country = "US"
    /\ inv[1][1].membership = "gold"
    /\ inv[1][1].coupon = Some(WELCOME10)
    /\ inv[1][1].items = <<LineItem("E1", "electronics", 50 * Scale, 2, FALSE)>>
    /\ ret[1].total = 1019600

\* C4: for every subtotal >= 0 and every country string the shipping cost is
\* the one of the shipping table, the country matched exactly and the
\* thresholds inclusive on the cheaper side.
C4_Shipping ==
    fn.op = "_calculate_shipping" /\ fn.subtotal >= 0 =>
        fn.result = ShippingTable(fn.subtotal, fn.country)

\* US with a subtotal of exactly 100 ships for 8
C4_Witness ==
    /\ fn.op = "_calculate_shipping"
    /\ fn.country = "US"
    /\ fn.subtotal = 100 * Scale
    /\ fn.result = 8 * Scale

\* C5: the membership discount is 3% for "gold", 5% for "platinum", and for
\* any other membership a flat 20 when subtotal > 3000 and 0 otherwise.
C5_MembershipDiscount ==
    fn.op = "_calculate_discount" =>
        /\ fn.result = MembershipDiscount(fn.membership, fn.subtotal)
        /\ fn.membership \in {"gold", "platinum"} /\ fn.subtotal > 3000 * Scale =>
                fn.result > 20 * Scale

\* a generic membership with a subtotal of exactly 3000 gets no discount
C5_Witness ==
    /\ fn.op = "_calculate_discount"
    /\ fn.membership = "regular"
    /\ fn.subtotal = 3000 * Scale
    /\ fn.result = 0

\* C6: for subtotal >= 0 and a coupon whose trimmed code is in the rate table,
\* the discount after the coupon is the current discount plus subtotal x rate,
\* and is never smaller than the discount with the coupon omitted.
C6_CouponAdditive ==
    fn.op = "_apply_coupon" /\ fn.subtotal >= 0 /\ KnownCoupon(fn.coupon) =>
        /\ fn.result = fn.discount + Pct(fn.subtotal, CouponPercent(fn.coupon))
        /\ fn.result >= ApplyCoupon(coupon_rate, None, fn.subtotal, fn.discount,
                                    fn.warnings).discount
        /\ fn.result >= fn.discount
        /\ fn.result_warnings = fn.warnings

\* " VIP20\n" applied on top of a discount of 20
C6_Witness ==
    /\ fn.op = "_apply_coupon"
    /\ fn.coupon = Some(<<" ">> \o VIP20 \o <<"\n">>)
    /\ fn.discount = 20 * Scale
    /\ fn.subtotal = 100 * Scale
    /\ fn.result = 40 * Scale

\* C7: for every valid invoice the warnings are exactly "Unknown coupon" iff
\* the coupon is present, non-blank after trimming and not in the rate table,
\* followed by "Consider membership upgrade" iff subtotal > 10000 and the
\* membership is neither gold nor platinum; neither makes the call fail.
C7_Warnings ==
    \A c \in Callers :
        Finished(c) /\ ExpectedProblems(inv[c]) = <<>> =>
            /\ ret[c].status = "returned"
            /\ ret[c].warnings = ExpectedWarnings(inv[c][1])

\* both warnings, in order
C7_Witness ==
    /\ Finished(1)
    /\ ret[1].status = "returned"
    /\ ret[1].warnings = <<"Unknown coupon", "Consider membership upgrade">>

\* C8: the second of two calls in a row with the same invoice yields what the
\* first did, and no step of a call changes the invoice or the rate table.
C8_Idempotent ==
    [][/\ inv' = inv
       /\ coupon_rate' = coupon_rate
       /\ \A c \in Callers :
            pc'[c] = "done" /\ round'[c] = 2 => ret'[c] = first'[c]]_vars

\* a second call that returned both warnings, as the first did
C8_Witness ==
    /\ Finished(1)
    /\ round[1] = 2
    /\ first[1].status = "returned"
    /\ ret[1].warnings = <<"Unknown coupon", "Consider membership upgrade">>

\* C9: under any interleaving of concurrent calls on one service, every call
\* yields what it yields when run alone, and the rate table is never written.
C9_Independent ==
    /\ coupon_rate = CouponRateTable
    /\ \A c \in Callers : Finished(c) => ret[c] = Alone(inv[c])

\* caller 1 has finished with both warnings while caller 2, with another
\* invoice, is in the middle of its call
C9_Witness ==
    /\ Finished(1)
    /\ Len(ret[1].warnings) = 2
    /\ pc[2] = "tax"
    /\ inv[2] # inv[1]
    /\ frame[2].discount > 0

Computed(c, stages) == pc[c] \in stages

\* C10: for every valid invoice the discount after the coupon never exceeds
\* the subtotal, the tax is never negative, the sum before the floor is never
\* negative and the floor leaves the total as it is.
C10_DiscountBounded ==
    \A c \in Callers :
        /\ Computed(c, {"tax", "total", "upgrade", "return"}) =>
                frame[c].discount <= frame[c].subtotal
        /\ Computed(c, {"total", "upgrade", "return"}) => frame[c].tax >= 0
        /\ Computed(c, {"upgrade", "return"}) =>
                LET f == frame[c]
                    sum == f.subtotal + f.shipping + f.fragile_fee + f.tax - f.discount
                IN  sum >= 0 /\ f.total = sum

\* the flat 20 together with VIP20, on a subtotal just above 3000
C10_Witness ==
    /\ Computed(1, {"return"})
    /\ inv[1][1].membership = "regular"
    /\ inv[1][1].coupon # None
    /\ Trimmed(inv[1][1].coupon[1]) = VIP20
    /\ frame[1].subtotal = 3010 * Scale
    /\ frame[1].discount = 622 * Scale

====
